---- MODULE Spec2Model ----
(***************************************************************************)
(* Parking ALPR microservice (avarajar/parking-alpr): the tenant-scoped    *)
(* HTTP handlers of app/main.py, the API-key dependency of app/auth.py,    *)
(* the recognition service of app/alpr_service.py and the tables of        *)
(* app/models.py, as a state machine over the three tables.                *)
(*                                                                         *)
(* Strings that the code transforms character by character (plates, OCR   *)
(* text) are sequences of one-character strings; opaque strings (tokens,   *)
(* names, messages) are TLA+ strings.  An optional value is a set with at  *)
(* most one element: None is {} and Some(x) is {x}.                        *)
(***************************************************************************)
EXTENDS Integers, Sequences, FiniteSets, TLC

VARIABLES buildings, vehicles, access_logs, req, last, nreq, normalizer, alpr_service

vars == <<buildings, vehicles, access_logs, req, last, nreq, normalizer, alpr_service>>

-----------------------------------------------------------------------------
(* Bounds and sample inputs *)

\* Requests the model lets start.
MaxRequests == 2

\* Longest text handed to the normalizer on its own.
MaxText == 3

\* Audit rows in the table when the log queries are examined on their own.
MaxLogs == 2

Buildings == {1, 2}
Workers == {"w1", "w2"}

None == {}
Some(x) == {x}
The(o) == CHOOSE x \in o : TRUE

\* X-API-Key header values: absent, empty, the two buildings' tokens, unknown.
ApiKeys == {None, Some(""), Some("tok1"), Some("tok2"), Some("invalid-key")}

\* Building ids sent to the token regeneration: a building, and an id of none.
RegenerateIds == {1, 999}

\* admin_token query parameter values: the configured secret, and another.
AdminTokens == {"test-admin-token", "wrong-token"}

\* license_plate values sent to POST /vehicles and in the URL path.
RawPlates == { <<"a","b"," ","c","1">>, <<"A","B","-","C","1">> }
PathPlates == { <<"a","b","c","1">>, <<"A","B","-","C","1">> }

\* skip / limit of the listings: the defaults, and the second page of size one.
Pages == { [skip |-> 0, limit |-> 100], [skip |-> 1, limit |-> 1] }

\* owner_name / apartment of a VehicleCreate body.
CreateBodies ==
    { [owner_name |-> "John Doe", apartment |-> Some("101A")],
      [owner_name |-> "Jane Roe", apartment |-> None] }

\* VehicleUpdate bodies: the fields that were set (exclude_unset).  owner_name
\* is "str | None": Some(name), or None for an explicit null.
UpdateBodies ==
    { ("apartment" :> Some("303C")),
      ("is_active" :> FALSE),
      ("owner_name" :> Some("Jane Roe") @@ "is_active" :> TRUE),
      ("owner_name" :> None) }

-----------------------------------------------------------------------------
(* str.upper(), str.replace(" ", "") *)

UpperChar(c) ==
    CASE c = "a" -> "A" [] c = "b" -> "B" [] c = "c" -> "C"
      [] c = "x" -> "X" [] c = "y" -> "Y" [] c = "z" -> "Z"
      [] OTHER -> c

upper(s) == [i \in 1..Len(s) |-> UpperChar(s[i])]

IsNotSpace(c) == c # " "

replace_space(s) == SelectSeq(s, IsNotSpace)

-----------------------------------------------------------------------------
(* app/auth.py *)

MissingKey == [status_code |-> 401, detail |-> "Missing API key. Include 'X-API-Key' header."]
InvalidKey == [status_code |-> 401, detail |-> "Invalid or inactive API key."]

\* Mutant: the token filter without the is_active filter.
BuildingQuery_IgnoreActive(api_key, db) ==
    {b \in DOMAIN db : db[b].api_token = The(api_key)}

\* db.query(Building).filter(api_token == api_key, is_active == True) on the
\* buildings table db: the ids of the rows that match.
BuildingQuery(api_key, db) ==
    {b \in DOMAIN db : db[b].api_token = The(api_key) /\ db[b].is_active}

\* Mutant: a token of an inactive building gets an error of its own.
get_current_building_TellsInactive(api_key, db) ==
    IF api_key = None \/ api_key = Some("")
    THEN [found |-> {}, error |-> Some(MissingKey)]
    ELSE IF BuildingQuery(api_key, db) = {}
         THEN [found |-> {},
               error |-> IF \E b \in DOMAIN db : db[b].api_token = The(api_key)
                         THEN Some([status_code |-> 403, detail |-> "Building is inactive."])
                         ELSE Some(InvalidKey)]
         ELSE [found |-> BuildingQuery(api_key, db), error |-> None]

\* The outcome of the dependency: the building ids .first() may return, or
\* the HTTPException raised.
get_current_building(api_key, db) ==
    IF api_key = None \/ api_key = Some("")
    THEN [found |-> {}, error |-> Some(MissingKey)]
    ELSE IF BuildingQuery(api_key, db) = {}
         THEN [found |-> {}, error |-> Some(InvalidKey)]
         ELSE [found |-> BuildingQuery(api_key, db), error |-> None]

-----------------------------------------------------------------------------
(* app/alpr_service.py *)

PlateResult(text, confidence, success, error) ==
    [text |-> text, confidence |-> confidence, success |-> success, error |-> error]

IsSpaceDashDot(c) == c \in {" ", "-", "."}
NotSpaceDashDot(c) == ~IsSpaceDashDot(c)
IsAZ09(c) == c \in {"A", "B", "C", "X", "Y", "Z", "0", "1", "9"}

\* The string without its first space, dash or dot.
DropFirstSeparator(s) ==
    LET at == {i \in 1..Len(s) : IsSpaceDashDot(s[i])}
        m == CHOOSE i \in at : \A j \in at : i <= j
    IN  IF at = {} THEN s
        ELSE [k \in 1..(Len(s) - 1) |-> IF k < m THEN s[k] ELSE s[k + 1]]

\* Mutant: re.sub(..., count=1) and no second pass: one separator removed.
_normalize_plate_FirstSeparatorOnly(text) ==
    IF text = None \/ text = Some(<<>>) THEN <<>>
    ELSE DropFirstSeparator(upper(The(text)))

\* Mutant: the two passes without .upper().
_normalize_plate_KeepCase(text) ==
    IF text = None \/ text = Some(<<>>) THEN <<>>
    ELSE SelectSeq(SelectSeq(The(text), NotSpaceDashDot), IsAZ09)

\* Mutant: the normalisation of create_vehicle (upper-case, spaces removed).
_normalize_plate_SpacesOnly(text) ==
    IF text = None \/ text = Some(<<>>) THEN <<>>
    ELSE replace_space(upper(The(text)))

\* text is None or Some(str).  "if not text: return ''", then
\* re.sub(r"[\s\-\.]", "", text.upper()), then re.sub(r"[^A-Z0-9]", "", ...)
_normalize_plate(text) ==
    IF text = None \/ text = Some(<<>>) THEN <<>>
    ELSE SelectSeq(SelectSeq(upper(The(text)), NotSpaceDashDot), IsAZ09)

\* What a call of the recognizer meets: the model failing to load, the missing
\* library (mock mode), an image that does not decode, a prediction that
\* raises, no detection, or a detection with its OCR text and its confidence
\* (a probability, in thousandths).
Images ==
    { [kind |-> "init_error", text |-> <<>>, confidence |-> 0],
      [kind |-> "unavailable", text |-> <<>>, confidence |-> 0],
      [kind |-> "undecodable", text |-> <<>>, confidence |-> 0],
      [kind |-> "model_error", text |-> <<>>, confidence |-> 0],
      [kind |-> "no_results", text |-> <<>>, confidence |-> 0],
      [kind |-> "plate", text |-> <<"a","b","c","-","1">>, confidence |-> 900],
      [kind |-> "plate", text |-> <<"x","y"," ","9">>, confidence |-> 1000],
      [kind |-> "plate", text |-> <<"-">>, confidence |-> 555] }

\* Mutant: the confidence as the model gives it, not as a percentage.
ConfidencePercent_Raw(confidence) == confidence

\* int(best_result.ocr.confidence * 100), the confidence in thousandths
ConfidencePercent(confidence) == (confidence * 100) \div 1000

_recognize_image(image) ==
    CASE image.kind = "unavailable" ->
           PlateResult(None, None, FALSE, Some("ALPR service not available"))
      [] image.kind = "no_results" ->
           PlateResult(None, None, TRUE, Some("No license plate detected in image"))
      [] image.kind = "plate" ->
           PlateResult(Some(_normalize_plate(Some(image.text))),
                       Some(ConfidencePercent(image.confidence)), TRUE, None)
      [] OTHER ->
           PlateResult(None, None, FALSE, Some("prediction failed"))

\* The PlateResult returned, or None when _initialize re-raises.
recognize_from_base64(image) ==
    CASE image.kind = "init_error" -> None
      [] image.kind = "undecodable" ->
           Some(PlateResult(None, None, FALSE, Some("cannot identify image file")))
      [] OTHER -> Some(_recognize_image(image))

\* The singleton "alpr_service = ALPRService()": _alpr and _initialized as
\* __init__ sets them, with the environment it runs in (whether fast_alpr is
\* "installed" or "missing") and the number of times the ALPR constructor
\* has run.
ALPRService(library) ==
    [_alpr |-> None, _initialized |-> FALSE, library |-> library, constructed |-> 0]

-----------------------------------------------------------------------------
(* app/models.py: tokens *)

\* Mutant: a token that is not random (the value building 1 starts with).
generate_api_token_Fixed(n) == "tok1"

\* Mutant: a generator that returns the token issued to building 2.
generate_api_token_Reused(n) == "tok2"

\* secrets.token_urlsafe(32): 256 random bits.  The token made during the
\* n-th request is modelled as a value no earlier call returned and no client
\* presents before it is issued.
generate_api_token(n) == "gen" \o ToString(n)

\* The keys clients present: the sample header values and the tokens the
\* buildings hold now.
PresentedKeys == ApiKeys \cup {Some(buildings[b].api_token) : b \in Buildings}

-----------------------------------------------------------------------------
(* Requests and responses *)

Idle == [pc |-> "idle", id |-> 0, api_key |-> None, building |-> 0,
         plate |-> <<>>, data |-> None, result |-> None, vehicle |-> None]

\* The response of the request that completed last, with the request it answers.
Response(op, id, api_key, building, args, status_code, detail, body) ==
    [op |-> op, id |-> id, api_key |-> api_key, building |-> building, args |-> args,
     status_code |-> status_code, detail |-> detail, body |-> body]

\* The HTTPException of the dependency, raised before the handler runs.
AuthFailure(op, id, api_key) ==
    Response(op, id, api_key, None, None,
             The(get_current_building(api_key, buildings).error).status_code,
             The(get_current_building(api_key, buildings).error).detail, None)

NotFound(op, id, api_key, b, args) ==
    Response(op, id, api_key, Some(b), args, 404, "Vehicle not found", None)

-----------------------------------------------------------------------------
(* Vehicle queries of app/main.py *)

\* Mutant: the plate filter without the building filter.
VehiclesByPlate_AnyBuilding(b, plate) ==
    {i \in 1..Len(vehicles) : vehicles[i].license_plate = plate}

\* Row ids (positions in the table) of a building's vehicles with a plate.
VehiclesByPlate(b, plate) ==
    {i \in 1..Len(vehicles) :
        vehicles[i].building_id = b /\ vehicles[i].license_plate = plate}

\* The row as the API returns it, with its primary key.
Row(i) == [id |-> i, row |-> vehicles[i]]

IsListed(b, active_only, i) ==
    /\ vehicles[i].building_id = b
    /\ (active_only => vehicles[i].is_active)

RECURSIVE ListedIds(_, _, _)
\* Ids of the listed rows among the first n rows, in table order.
ListedIds(b, active_only, n) ==
    IF n = 0 THEN <<>>
    ELSE IF IsListed(b, active_only, n)
         THEN Append(ListedIds(b, active_only, n - 1), n)
         ELSE ListedIds(b, active_only, n - 1)

\* seq.offset(skip).limit(limit)
OffsetLimit(s, skip, limit) ==
    SubSeq(s, skip + 1, IF Len(s) < skip + limit THEN Len(s) ELSE skip + limit)

ListQuery(b, skip, limit, active_only) ==
    LET ids == OffsetLimit(ListedIds(b, active_only, Len(vehicles)), skip, limit)
    IN  [k \in 1..Len(ids) |-> Row(ids[k])]

-----------------------------------------------------------------------------
(* State after start-up with the fixtures of the test suite *)

\* The tables and the request state at start-up.
Fixtures ==
    /\ buildings = [b \in Buildings |->
                       [api_token |-> IF b = 1 THEN "tok1" ELSE "tok2", is_active |-> TRUE]]
    /\ vehicles = << [building_id |-> 1, license_plate |-> <<"A","B","C","1">>,
                      owner_name |-> "John Doe", apartment |-> Some("101A"),
                      is_active |-> TRUE] >>
    /\ access_logs = <<>>
    /\ req = [w \in Workers |-> Idle]
    /\ last = Response("none", 0, None, None, None, 0, "", None)
    /\ nreq = 0
    /\ alpr_service = ALPRService("installed")

\* A call of ALPRService._normalize_plate under test: its argument, its
\* result, and the result of normalizing that result again.
NoCall == [text |-> None, normalized |-> None, again |-> None]

Init == Fixtures /\ normalizer = NoCall

-----------------------------------------------------------------------------
(* GET /api/v1/vehicles *)

list_vehicles ==
    /\ nreq < MaxRequests
    /\ nreq' = nreq + 1
    /\ \E api_key \in PresentedKeys, page \in Pages, active_only \in BOOLEAN :
         LET skip == page.skip
             limit == page.limit
             args == [skip |-> skip, limit |-> limit, active_only |-> active_only]
             auth == get_current_building(api_key, buildings)
         IN  IF auth.error # None
             THEN last' = AuthFailure("list_vehicles", nreq', api_key)
             ELSE \E b \in auth.found :
                    last' = Response("list_vehicles", nreq', api_key, Some(b), args, 200, "",
                                     ListQuery(b, skip, limit, active_only))
    /\ UNCHANGED <<alpr_service, normalizer, buildings, vehicles, access_logs, req>>

(* GET /api/v1/vehicles/{license_plate} *)

get_vehicle ==
    /\ nreq < MaxRequests
    /\ nreq' = nreq + 1
    /\ \E api_key \in PresentedKeys, license_plate \in PathPlates :
         LET args == [license_plate |-> license_plate]
             auth == get_current_building(api_key, buildings)
         IN  IF auth.error # None
             THEN last' = AuthFailure("get_vehicle", nreq', api_key)
             ELSE \E b \in auth.found :
                    IF VehiclesByPlate(b, upper(license_plate)) = {}
                    THEN last' = NotFound("get_vehicle", nreq', api_key, b, args)
                    ELSE \E i \in VehiclesByPlate(b, upper(license_plate)) :
                           last' = Response("get_vehicle", nreq', api_key, Some(b), args,
                                            200, "", Row(i))
    /\ UNCHANGED <<alpr_service, normalizer, buildings, vehicles, access_logs, req>>

(* POST /api/v1/vehicles: the existence check, then the insert and commit *)

create_vehicle_plate(raw) == replace_space(upper(raw))

NewVehicle(b, license_plate, data) ==
    [building_id |-> b, license_plate |-> license_plate,
     owner_name |-> data.owner_name, apartment |-> data.apartment,
     is_active |-> TRUE]

\* Creates between their check and their commit.
PendingCreates == {w \in Workers : req[w].pc = "create_commit"}

create_vehicle_check(w) ==
    /\ req[w].pc = "idle"
    /\ nreq < MaxRequests
    /\ nreq' = nreq + 1
    /\ \E api_key \in PresentedKeys, raw \in RawPlates, data \in CreateBodies :
         LET args == [license_plate |-> raw, data |-> data]
             auth == get_current_building(api_key, buildings)
             license_plate == create_vehicle_plate(raw)
         IN  IF auth.error # None
             THEN /\ last' = AuthFailure("create_vehicle", nreq', api_key)
                  /\ req' = req
             ELSE \E b \in auth.found :
                    IF VehiclesByPlate(b, license_plate) # {}
                    THEN /\ last' = Response("create_vehicle", nreq', api_key, Some(b), args, 400,
                                      "Vehicle with this license plate already registered in this building",
                                      None)
                         /\ req' = req
                    ELSE /\ req' = [req EXCEPT ![w] =
                                      [Idle EXCEPT !.pc = "create_commit", !.id = nreq',
                                                   !.api_key = api_key, !.building = b,
                                                   !.plate = license_plate, !.data = Some(args)]]
                         /\ last' = last
    /\ UNCHANGED <<alpr_service, normalizer, buildings, vehicles, access_logs>>

create_vehicle_commit(w) ==
    /\ req[w].pc = "create_commit"
    /\ vehicles' = Append(vehicles,
                          NewVehicle(req[w].building, req[w].plate, The(req[w].data).data))
    /\ last' = Response("create_vehicle", req[w].id, req[w].api_key, Some(req[w].building),
                        The(req[w].data), 201, "",
                        [id |-> Len(vehicles) + 1, row |-> vehicles'[Len(vehicles) + 1]])
    /\ req' = [req EXCEPT ![w] = Idle]
    /\ UNCHANGED <<alpr_service, normalizer, buildings, access_logs, nreq>>

(* PUT /api/v1/vehicles/{license_plate} *)

\* The value setattr gives a column: the name of an owner_name, else the field.
Supplied(update_data, f) ==
    IF f = "owner_name" THEN The(update_data[f]) ELSE update_data[f]

\* Mutant: model_dump() without exclude_unset, which resets an apartment that
\* was not supplied to its default None.
ApplyUpdate_ResetUnset(row, update_data) ==
    [f \in DOMAIN row |->
        IF f \in DOMAIN update_data THEN Supplied(update_data, f)
        ELSE IF f = "apartment" THEN None ELSE row[f]]

\* setattr(vehicle, field, value) for every field that was set
ApplyUpdate(row, update_data) ==
    [f \in DOMAIN row |->
        IF f \in DOMAIN update_data THEN Supplied(update_data, f) ELSE row[f]]

\* Vehicle.owner_name is nullable=False: the UPDATE that sets it to NULL fails
\* and db.commit() raises IntegrityError.
IntegrityError(update_data) ==
    "owner_name" \in DOMAIN update_data /\ update_data["owner_name"] = None

update_vehicle ==
    /\ nreq < MaxRequests
    /\ nreq' = nreq + 1
    /\ \E api_key \in PresentedKeys, license_plate \in PathPlates, update_data \in UpdateBodies :
         LET args == [license_plate |-> license_plate, data |-> update_data]
             auth == get_current_building(api_key, buildings)
         IN  IF auth.error # None
             THEN /\ last' = AuthFailure("update_vehicle", nreq', api_key)
                  /\ vehicles' = vehicles
             ELSE \E b \in auth.found :
                    IF VehiclesByPlate(b, upper(license_plate)) = {}
                    THEN /\ last' = NotFound("update_vehicle", nreq', api_key, b, args)
                         /\ vehicles' = vehicles
                    ELSE IF IntegrityError(update_data)
                    THEN /\ last' = Response("update_vehicle", nreq', api_key, Some(b), args,
                                             500, "Internal Server Error", None)
                         /\ vehicles' = vehicles
                    ELSE \E i \in VehiclesByPlate(b, upper(license_plate)) :
                           /\ vehicles' = [vehicles EXCEPT ![i] = ApplyUpdate(@, update_data)]
                           /\ last' = Response("update_vehicle", nreq', api_key, Some(b), args,
                                               200, "", [id |-> i, row |-> vehicles'[i]])
    /\ UNCHANGED <<alpr_service, normalizer, buildings, access_logs, req>>

(* DELETE /api/v1/vehicles/{license_plate} *)

\* Mutant: the flag is not cleared.
Deactivated_Unchanged(row) == row

Deactivated(row) == [row EXCEPT !.is_active = FALSE]

delete_vehicle ==
    /\ nreq < MaxRequests
    /\ nreq' = nreq + 1
    /\ \E api_key \in PresentedKeys, license_plate \in PathPlates :
         LET args == [license_plate |-> license_plate]
             auth == get_current_building(api_key, buildings)
         IN  IF auth.error # None
             THEN /\ last' = AuthFailure("delete_vehicle", nreq', api_key)
                  /\ vehicles' = vehicles
             ELSE \E b \in auth.found :
                    IF VehiclesByPlate(b, upper(license_plate)) = {}
                    THEN /\ last' = NotFound("delete_vehicle", nreq', api_key, b, args)
                         /\ vehicles' = vehicles
                    ELSE \E i \in VehiclesByPlate(b, upper(license_plate)) :
                           /\ vehicles' = [vehicles EXCEPT ![i] = Deactivated(@)]
                           /\ last' = Response("delete_vehicle", nreq', api_key, Some(b), args,
                                               200, "Vehicle deactivated successfully",
                                               Some(i))
    /\ UNCHANGED <<alpr_service, normalizer, buildings, access_logs, req>>

-----------------------------------------------------------------------------
(* POST /api/v1/verify: recognition, the registry lookup, the audit write *)

PlateVerifyResponse(license_plate, is_authorized, confidence, message) ==
    [license_plate |-> license_plate, is_authorized |-> is_authorized,
     confidence |-> confidence, owner_name |-> None, apartment |-> None,
     message |-> message]

Message(text, error, owner_name, apartment) ==
    [text |-> text, error |-> error, owner_name |-> owner_name, apartment |-> apartment]

\* Mutant: "result.text is None" in place of "not result.text".
NoText_OnlyNone(result) == result.text = None

\* not result.text: None or the empty string
NoText(result) == result.text = None \/ result.text = Some(<<>>)

\* Mutant: the lookup without the is_active filter.
AuthorizedVehicles_IgnoreActive(b, plate) == VehiclesByPlate(b, plate)

\* Active rows of the building with the plate.
AuthorizedVehicles(b, plate) ==
    {i \in VehiclesByPlate(b, plate) : vehicles[i].is_active}

\* Mutant: a failed recognition is audited with the plate "UNREADABLE".
AuditAfterEarlyReturn_Unreadable(id, b, result) ==
    IF result.success THEN access_logs
    ELSE Append(access_logs,
                [building_id |-> b, license_plate |-> <<"U","N","R","E","A","D","A","B","L","E">>,
                 is_authorized |-> FALSE, confidence |-> None, accessed_at |-> id,
                 request |-> id])

\* The audit rows after the two early returns of verify_plate, which add none.
AuditAfterEarlyReturn(id, b, result) == access_logs

verify_plate_recognize(w) ==
    /\ req[w].pc = "idle"
    /\ nreq < MaxRequests
    /\ nreq' = nreq + 1
    /\ \E api_key \in PresentedKeys, image \in Images :
         LET args == [image |-> image]
             auth == get_current_building(api_key, buildings)
             called == recognize_from_base64(image)
             result == The(called)
         IN  IF auth.error # None
             THEN /\ last' = AuthFailure("verify_plate", nreq', api_key)
                  /\ req' = req
                  /\ access_logs' = access_logs
             ELSE \E b \in auth.found :
                    IF called = None
                    THEN /\ last' = Response("verify_plate", nreq', api_key, Some(b), args,
                                             500, "Internal Server Error", None)
                         /\ req' = req
                         /\ access_logs' = access_logs
                    ELSE IF ~result.success
                    THEN /\ last' = Response("verify_plate", nreq', api_key, Some(b), args, 200, "",
                                      PlateVerifyResponse(None, FALSE, None,
                                          Message("Failed to read license plate", result.error,
                                                  None, None)))
                         /\ req' = req
                         /\ access_logs' = AuditAfterEarlyReturn(nreq', b, result)
                    ELSE IF NoText(result)
                    THEN /\ last' = Response("verify_plate", nreq', api_key, Some(b), args, 200, "",
                                      PlateVerifyResponse(None, FALSE, result.confidence,
                                          Message("No license plate detected in the image", None,
                                                  None, None)))
                         /\ req' = req
                         /\ access_logs' = AuditAfterEarlyReturn(nreq', b, result)
                    ELSE /\ req' = [req EXCEPT ![w] =
                                      [Idle EXCEPT !.pc = "verify_lookup", !.id = nreq',
                                                   !.api_key = api_key, !.building = b,
                                                   !.data = Some(args), !.result = Some(result)]]
                         /\ last' = last
                         /\ access_logs' = access_logs
    /\ UNCHANGED <<alpr_service, normalizer, buildings, vehicles>>

verify_plate_lookup(w) ==
    /\ req[w].pc = "verify_lookup"
    /\ LET plate == replace_space(upper(The(The(req[w].result).text)))
           found == AuthorizedVehicles(req[w].building, plate)
       IN  \E vehicle \in (IF found = {} THEN {None} ELSE {Some(i) : i \in found}) :
             req' = [req EXCEPT ![w].pc = "verify_log", ![w].plate = plate,
                                ![w].vehicle = vehicle]
    /\ UNCHANGED <<alpr_service, normalizer, buildings, vehicles, access_logs, last, nreq>>

\* Mutant: the row records every attempt as denied.
AccessLog_Denied(id, b, plate, is_authorized, confidence, accessed_at) ==
    [building_id |-> b, license_plate |-> plate, is_authorized |-> FALSE,
     confidence |-> confidence, accessed_at |-> accessed_at, request |-> id]

AccessLog(id, b, plate, is_authorized, confidence, accessed_at) ==
    [building_id |-> b, license_plate |-> plate, is_authorized |-> is_authorized,
     confidence |-> confidence, accessed_at |-> accessed_at, request |-> id]

verify_plate_log(w) ==
    /\ req[w].pc = "verify_log"
    /\ LET is_authorized == req[w].vehicle # None
           result == The(req[w].result)
           vehicle == vehicles[The(req[w].vehicle)]
       IN  /\ \E accessed_at \in {req[w].id, nreq} :
                access_logs' = Append(access_logs,
                    AccessLog(req[w].id, req[w].building, req[w].plate, is_authorized,
                              result.confidence, accessed_at))
           /\ last' = Response("verify_plate", req[w].id, req[w].api_key, Some(req[w].building),
                               The(req[w].data), 200, "",
                               PlateVerifyResponse(Some(req[w].plate), is_authorized,
                                   result.confidence,
                                   IF is_authorized
                                   THEN Message("Vehicle authorized", None,
                                                Some(vehicle.owner_name), vehicle.apartment)
                                   ELSE Message("Vehicle not authorized for this building",
                                                None, None, None)))
    /\ req' = [req EXCEPT ![w] = Idle]
    /\ UNCHANGED <<alpr_service, normalizer, buildings, vehicles, nreq>>

-----------------------------------------------------------------------------
(* POST /api/v1/verify-upload: the file is base64-encoded and handed to the  *)
(* same recognition call                                                     *)

B64Alphabet ==
    <<"A","B","C","D","E","F","G","H","I","J","K","L","M","N","O","P",
      "Q","R","S","T","U","V","W","X","Y","Z","a","b","c","d","e","f",
      "g","h","i","j","k","l","m","n","o","p","q","r","s","t","u","v",
      "w","x","y","z","0","1","2","3","4","5","6","7","8","9","+","/">>

\* The character of a 6-bit value, and the value of a character.
B64Char(v) == B64Alphabet[v + 1]
B64Value(c) == CHOOSE v \in 0..63 : B64Alphabet[v + 1] = c

IsB64Char(c) == c = "=" \/ \E v \in 0..63 : B64Alphabet[v + 1] = c

\* Mutant: the encoding without "=" padding (as urlsafe tokens are written).
RECURSIVE b64encode_NoPadding(_)
b64encode_NoPadding(s) ==
    IF Len(s) = 0 THEN <<>>
    ELSE IF Len(s) = 1
    THEN <<B64Char(s[1] \div 4), B64Char((s[1] % 4) * 16)>>
    ELSE IF Len(s) = 2
    THEN <<B64Char(s[1] \div 4), B64Char((s[1] % 4) * 16 + s[2] \div 16),
           B64Char((s[2] % 16) * 4)>>
    ELSE <<B64Char(s[1] \div 4), B64Char((s[1] % 4) * 16 + s[2] \div 16),
           B64Char((s[2] % 16) * 4 + s[3] \div 64), B64Char(s[3] % 64)>>
         \o b64encode_NoPadding(SubSeq(s, 4, Len(s)))

RECURSIVE b64encode(_)
\* base64.b64encode(contents).decode(): three bytes to four characters, the
\* last group padded with "=".
b64encode(s) ==
    IF Len(s) = 0 THEN <<>>
    ELSE IF Len(s) = 1
    THEN <<B64Char(s[1] \div 4), B64Char((s[1] % 4) * 16), "=", "=">>
    ELSE IF Len(s) = 2
    THEN <<B64Char(s[1] \div 4), B64Char((s[1] % 4) * 16 + s[2] \div 16),
           B64Char((s[2] % 16) * 4), "=">>
    ELSE <<B64Char(s[1] \div 4), B64Char((s[1] % 4) * 16 + s[2] \div 16),
           B64Char((s[2] % 16) * 4 + s[3] \div 64), B64Char(s[3] % 64)>>
         \o b64encode(SubSeq(s, 4, Len(s)))

RECURSIVE b64decode_groups(_)
\* The bytes of a padded sequence of groups of four characters.
b64decode_groups(s) ==
    IF Len(s) = 0 THEN <<>>
    ELSE LET a == B64Value(s[1])
             b == B64Value(s[2])
         IN  IF s[3] = "=" THEN <<a * 4 + b \div 16>>
             ELSE IF s[4] = "="
             THEN <<a * 4 + b \div 16, (b % 16) * 16 + B64Value(s[3]) \div 4>>
             ELSE <<a * 4 + b \div 16, (b % 16) * 16 + B64Value(s[3]) \div 4,
                    (B64Value(s[3]) % 4) * 64 + B64Value(s[4])>>
                  \o b64decode_groups(SubSeq(s, 5, Len(s)))

\* base64.b64decode(image_base64): characters outside the alphabet are
\* discarded; a length that is no multiple of four raises binascii.Error
\* ("Incorrect padding"), here None.
b64decode(s) ==
    LET t == SelectSeq(s, IsB64Char)
    IN  IF Len(t) % 4 # 0 THEN None ELSE Some(b64decode_groups(t))

\* The uploaded files, by their bytes: what the recognizer meets when it is
\* handed each (the image the bytes hold, and the state of the model).
Files ==
    (<<>> :> [kind |-> "undecodable", text |-> <<>>, confidence |-> 0])
    @@ (<<0>> :> [kind |-> "no_results", text |-> <<>>, confidence |-> 0])
    @@ (<<1>> :> [kind |-> "plate", text |-> <<"a","b","c","-","1">>, confidence |-> 900])
    @@ (<<255>> :> [kind |-> "plate", text |-> <<"-">>, confidence |-> 555])
    @@ (<<77, 1>> :> [kind |-> "plate", text |-> <<"x","y"," ","9">>, confidence |-> 1000])
    @@ (<<0, 255>> :> [kind |-> "init_error", text |-> <<>>, confidence |-> 0])
    @@ (<<255, 255>> :> [kind |-> "unavailable", text |-> <<>>, confidence |-> 0])
    @@ (<<1, 2, 3>> :> [kind |-> "model_error", text |-> <<>>, confidence |-> 0])

\* What recognize_from_base64 meets for a base64 string: b64decode, then
\* Image.open on the bytes; a string that does not decode, or bytes that are
\* no image, raise inside its try.
Opened(image_base64) ==
    LET image_data == b64decode(image_base64)
    IN  IF image_data = None \/ The(image_data) \notin DOMAIN Files
        THEN [kind |-> "undecodable", text |-> <<>>, confidence |-> 0]
        ELSE Files[The(image_data)]

verify_plate_upload_recognize(w) ==
    /\ req[w].pc = "idle"
    /\ nreq < MaxRequests
    /\ nreq' = nreq + 1
    /\ \E api_key \in PresentedKeys, contents \in DOMAIN Files :
         LET args == [contents |-> contents]
             auth == get_current_building(api_key, buildings)
             image_base64 == b64encode(contents)
             called == recognize_from_base64(Opened(image_base64))
             result == The(called)
         IN  IF auth.error # None
             THEN /\ last' = AuthFailure("verify_plate_upload", nreq', api_key)
                  /\ req' = req
             ELSE \E b \in auth.found :
                    IF called = None
                    THEN /\ last' = Response("verify_plate_upload", nreq', api_key, Some(b),
                                             args, 500, "Internal Server Error", None)
                         /\ req' = req
                    ELSE IF ~result.success
                    THEN /\ last' = Response("verify_plate_upload", nreq', api_key, Some(b),
                                      args, 200, "",
                                      PlateVerifyResponse(None, FALSE, None,
                                          Message("Failed to read license plate", result.error,
                                                  None, None)))
                         /\ req' = req
                    ELSE IF result.text = None \/ result.text = Some(<<>>)
                    THEN /\ last' = Response("verify_plate_upload", nreq', api_key, Some(b),
                                      args, 200, "",
                                      PlateVerifyResponse(None, FALSE, result.confidence,
                                          Message("No license plate detected in the image", None,
                                                  None, None)))
                         /\ req' = req
                    ELSE /\ req' = [req EXCEPT ![w] =
                                      [Idle EXCEPT !.pc = "upload_lookup", !.id = nreq',
                                                   !.api_key = api_key, !.building = b,
                                                   !.data = Some(args), !.result = Some(result)]]
                         /\ last' = last
    /\ UNCHANGED <<alpr_service, normalizer, buildings, vehicles, access_logs>>

verify_plate_upload_lookup(w) ==
    /\ req[w].pc = "upload_lookup"
    /\ LET plate == replace_space(upper(The(The(req[w].result).text)))
           found == {i \in 1..Len(vehicles) :
                        /\ vehicles[i].building_id = req[w].building
                        /\ vehicles[i].license_plate = plate
                        /\ vehicles[i].is_active}
       IN  \E vehicle \in (IF found = {} THEN {None} ELSE {Some(i) : i \in found}) :
             req' = [req EXCEPT ![w].pc = "upload_log", ![w].plate = plate,
                                ![w].vehicle = vehicle]
    /\ UNCHANGED <<alpr_service, normalizer, buildings, vehicles, access_logs, last, nreq>>

verify_plate_upload_log(w) ==
    /\ req[w].pc = "upload_log"
    /\ LET is_authorized == req[w].vehicle # None
           result == The(req[w].result)
           vehicle == vehicles[The(req[w].vehicle)]
       IN  /\ \E accessed_at \in {req[w].id, nreq} :
                access_logs' = Append(access_logs,
                    [building_id |-> req[w].building, license_plate |-> req[w].plate,
                     is_authorized |-> is_authorized, confidence |-> result.confidence,
                     accessed_at |-> accessed_at, request |-> req[w].id])
           /\ last' = Response("verify_plate_upload", req[w].id, req[w].api_key,
                               Some(req[w].building), The(req[w].data), 200, "",
                               PlateVerifyResponse(Some(req[w].plate), is_authorized,
                                   result.confidence,
                                   IF is_authorized
                                   THEN Message("Vehicle authorized", None,
                                                Some(vehicle.owner_name), vehicle.apartment)
                                   ELSE Message("Vehicle not authorized for this building",
                                                None, None, None)))
    /\ req' = [req EXCEPT ![w] = Idle]
    /\ UNCHANGED <<alpr_service, normalizer, buildings, vehicles, nreq>>

-----------------------------------------------------------------------------
(* Access log queries of app/main.py *)

Entry(i) == [id |-> i, row |-> access_logs[i]]

\* Mutant: the query without order_by: the rows in any order.
OrderByAccessedAtDesc_Unordered(ids) ==
    {s \in [1..Cardinality(ids) -> ids] : \A j, k \in DOMAIN s : j # k => s[j] # s[k]}

\* order_by(accessed_at.desc()): every order of the ids that is descending in
\* accessed_at (rows with equal timestamps come in any order).
OrderByAccessedAtDesc(ids) ==
    {s \in [1..Cardinality(ids) -> ids] :
        /\ \A j, k \in DOMAIN s : j # k => s[j] # s[k]
        /\ \A j, k \in DOMAIN s :
             j < k => access_logs[s[j]].accessed_at >= access_logs[s[k]].accessed_at}

LogsOfBuilding(b, authorized_only) ==
    {i \in 1..Len(access_logs) :
        /\ access_logs[i].building_id = b
        /\ (authorized_only # None => access_logs[i].is_authorized = The(authorized_only))}

\* Mutant: the plate filter without the building filter.
LogsOfPlate_AnyBuilding(b, plate) ==
    {i \in 1..Len(access_logs) : access_logs[i].license_plate = plate}

LogsOfPlate(b, plate) ==
    {i \in 1..Len(access_logs) :
        access_logs[i].building_id = b /\ access_logs[i].license_plate = plate}

Entries(ids) == [k \in 1..Len(ids) |-> Entry(ids[k])]

(* GET /api/v1/logs *)

list_access_logs ==
    /\ nreq < MaxRequests
    /\ nreq' = nreq + 1
    /\ \E api_key \in PresentedKeys, page \in Pages,
          authorized_only \in {None, Some(TRUE), Some(FALSE)} :
         LET skip == page.skip
             limit == page.limit
             args == [skip |-> skip, limit |-> limit, authorized_only |-> authorized_only]
             auth == get_current_building(api_key, buildings)
         IN  IF auth.error # None
             THEN last' = AuthFailure("list_access_logs", nreq', api_key)
             ELSE \E b \in auth.found :
                    \E ids \in OrderByAccessedAtDesc(LogsOfBuilding(b, authorized_only)) :
                       last' = Response("list_access_logs", nreq', api_key, Some(b), args,
                                        200, "", Entries(OffsetLimit(ids, skip, limit)))
    /\ UNCHANGED <<alpr_service, normalizer, buildings, vehicles, access_logs, req>>

(* GET /api/v1/logs/{license_plate} *)

get_vehicle_logs ==
    /\ nreq < MaxRequests
    /\ nreq' = nreq + 1
    /\ \E api_key \in PresentedKeys, license_plate \in PathPlates, limit \in {1, 50} :
         LET args == [license_plate |-> license_plate, limit |-> limit]
             auth == get_current_building(api_key, buildings)
         IN  IF auth.error # None
             THEN last' = AuthFailure("get_vehicle_logs", nreq', api_key)
             ELSE \E b \in auth.found :
                    \E ids \in OrderByAccessedAtDesc(LogsOfPlate(b, upper(license_plate))) :
                       last' = Response("get_vehicle_logs", nreq', api_key, Some(b), args,
                                        200, "", Entries(OffsetLimit(ids, 0, limit)))
    /\ UNCHANGED <<alpr_service, normalizer, buildings, vehicles, access_logs, req>>

-----------------------------------------------------------------------------
(* Admin panel, app/admin.py *)

\* BuildingAdmin's form edits is_active (name and address are not modelled).
admin_edit_building ==
    /\ nreq < MaxRequests
    /\ nreq' = nreq + 1
    /\ \E b \in Buildings, is_active \in BOOLEAN :
         /\ buildings' = [buildings EXCEPT ![b].is_active = is_active]
         /\ last' = Response("admin_edit_building", nreq', None, Some(b),
                             [is_active |-> is_active], 200, "", None)
    /\ UNCHANGED <<alpr_service, normalizer, vehicles, access_logs, req>>

(* POST /admin/buildings/{building_id}/regenerate-token *)

\* The administrative credential is compared with the configured secret; the
\* building's token is replaced by a newly generated one in one commit.
regenerate_token ==
    /\ nreq < MaxRequests
    /\ nreq' = nreq + 1
    /\ \E building_id \in RegenerateIds, admin_token \in AdminTokens :
         LET args == [building_id |-> building_id, admin_token |-> admin_token]
         IN  IF admin_token # "test-admin-token"
             THEN /\ buildings' = buildings
                  /\ last' = Response("regenerate_token", nreq', None, None, args,
                                      401, "Invalid admin token", None)
             ELSE IF building_id \notin DOMAIN buildings
             THEN /\ buildings' = buildings
                  /\ last' = Response("regenerate_token", nreq', None, None, args,
                                      404, "Building not found", None)
             ELSE /\ buildings' = [buildings EXCEPT
                                     ![building_id].api_token = generate_api_token(nreq')]
                  /\ last' = Response("regenerate_token", nreq', None, Some(building_id), args,
                                      200, "", [id |-> building_id,
                                                api_token |-> buildings'[building_id].api_token])
    /\ UNCHANGED <<alpr_service, normalizer, vehicles, access_logs, req>>

\* Mutant: the view without "can_delete = False" (deleting is permitted).
AccessLogAdmin_Deletable ==
    [can_create |-> FALSE, can_edit |-> FALSE, can_delete |-> TRUE]

\* AccessLogAdmin: can_create = False, can_edit = False, can_delete = False
AccessLogAdmin ==
    [can_create |-> FALSE, can_edit |-> FALSE, can_delete |-> FALSE]

RemoveAt(s, i) == [k \in 1..(Len(s) - 1) |-> IF k < i THEN s[k] ELSE s[k + 1]]

\* What a permitted write of the access-log view would do to the table.
AdminWrite(action, i) ==
    CASE action = "create" ->
           Append(access_logs, AccessLog(0, 1, <<"A","B","C","1">>, TRUE, None, nreq))
      [] action = "edit" ->
           [access_logs EXCEPT ![i].is_authorized = ~@]
      [] action = "delete" -> RemoveAt(access_logs, i)
      [] OTHER -> access_logs

AdminPermits(view, action) ==
    CASE action = "create" -> view.can_create
      [] action = "edit" -> view.can_edit
      [] action = "delete" -> view.can_delete
      [] OTHER -> TRUE

\* A request to the access-log view: the list page, or a create, edit or
\* delete form, which the view answers 403 unless it permits the action.
admin_access_logs ==
    /\ nreq < MaxRequests
    /\ nreq' = nreq + 1
    /\ \E action \in {"list", "create", "edit", "delete"} :
         \E i \in (IF action \in {"edit", "delete"} THEN 1..Len(access_logs) ELSE {0}) :
           IF AdminPermits(AccessLogAdmin, action)
           THEN /\ access_logs' = AdminWrite(action, i)
                /\ last' = Response("admin_access_logs", nreq', None, None,
                                    [action |-> action], 200, "", None)
           ELSE /\ access_logs' = access_logs
                /\ last' = Response("admin_access_logs", nreq', None, None,
                                    [action |-> action], 403, "", None)
    /\ UNCHANGED <<alpr_service, normalizer, buildings, vehicles, req>>

Next ==
    \/ list_vehicles
    \/ get_vehicle
    \/ \E w \in Workers : create_vehicle_check(w)
    \/ \E w \in Workers : create_vehicle_commit(w)
    \/ update_vehicle
    \/ delete_vehicle
    \/ \E w \in Workers : verify_plate_recognize(w)
    \/ \E w \in Workers : verify_plate_lookup(w)
    \/ \E w \in Workers : verify_plate_log(w)
    \/ list_access_logs
    \/ get_vehicle_logs
    \/ admin_edit_building
    \/ regenerate_token
    \/ admin_access_logs

Spec == Init /\ [][Next]_vars

\* Each handler runs on a thread of its own, holds no lock and waits for no
\* other request: a request that has a step left takes it.
Fairness ==
    \A w \in Workers :
        /\ WF_vars(create_vehicle_commit(w))
        /\ WF_vars(verify_plate_lookup(w))
        /\ WF_vars(verify_plate_log(w))

LiveSpec == Init /\ [][Next]_vars /\ Fairness

-----------------------------------------------------------------------------
(* The two verification routes side by side, with concurrent deactivations *)

UploadNext ==
    \/ \E w \in Workers : verify_plate_recognize(w)
    \/ \E w \in Workers : verify_plate_lookup(w)
    \/ \E w \in Workers : verify_plate_log(w)
    \/ \E w \in Workers : verify_plate_upload_recognize(w)
    \/ \E w \in Workers : verify_plate_upload_lookup(w)
    \/ \E w \in Workers : verify_plate_upload_log(w)
    \/ delete_vehicle

UploadSpec == Init /\ [][UploadNext]_vars

-----------------------------------------------------------------------------
(* The recognition service on its own: concurrent recognize_from_base64     *)
(* calls on the singleton, as the threads of the handlers make them         *)

\* The images of the calls; whether the model is there is the service's state.
ServiceImages == {image \in Images : image.kind \notin {"init_error", "unavailable"}}

RecognizerInit ==
    /\ buildings = [b \in Buildings |->
                       [api_token |-> IF b = 1 THEN "tok1" ELSE "tok2", is_active |-> TRUE]]
    /\ vehicles = <<>>
    /\ access_logs = <<>>
    /\ req = [w \in Workers |-> Idle]
    /\ last = Response("none", 0, None, None, None, 0, "", None)
    /\ nreq = 0
    /\ normalizer = NoCall
    /\ alpr_service \in {ALPRService("installed"), ALPRService("missing")}

\* recognize_from_base64(image_base64) is entered: self._initialize() next
recognize_call(w) ==
    /\ req[w].pc = "idle"
    /\ nreq < MaxRequests
    /\ nreq' = nreq + 1
    /\ \E image \in ServiceImages :
         req' = [req EXCEPT ![w] = [Idle EXCEPT !.pc = "_initialize", !.id = nreq',
                                                !.data = Some([image |-> image])]]
    /\ UNCHANGED <<alpr_service, normalizer, buildings, vehicles, access_logs, last>>

\* "if self._initialized: return"
_initialize_check(w) ==
    /\ req[w].pc = "_initialize"
    /\ req' = [req EXCEPT ![w].pc = IF alpr_service._initialized THEN "try" ELSE "load"]
    /\ UNCHANGED <<alpr_service, normalizer, buildings, vehicles, access_logs, last, nreq>>

\* The try block of _initialize: the import, the ALPR constructor and the
\* two assignments; ImportError sets _initialized alone; any other exception
\* is raised again and ends the call.
_initialize_load(w) ==
    /\ req[w].pc = "load"
    /\ IF alpr_service.library = "missing"
       THEN /\ alpr_service' = [alpr_service EXCEPT !._initialized = TRUE]
            /\ req' = [req EXCEPT ![w].pc = "try"]
            /\ last' = last
       ELSE \E raised \in BOOLEAN :
              IF raised
              THEN /\ alpr_service' = [alpr_service EXCEPT !.constructed = @ + 1]
                   /\ req' = [req EXCEPT ![w] = Idle]
                   /\ last' = Response("recognize_from_base64", req[w].id, None, None,
                                       The(req[w].data), 0, "raised", None)
              ELSE /\ alpr_service' = [alpr_service EXCEPT
                                          !.constructed = @ + 1,
                                          !._alpr = Some(alpr_service.constructed + 1),
                                          !._initialized = TRUE]
                   /\ req' = [req EXCEPT ![w].pc = "try"]
                   /\ last' = last
    /\ UNCHANGED <<normalizer, buildings, vehicles, access_logs, nreq>>

\* What the call meets in its try block: an image that does not decode fails
\* before _recognize_image; there, "self._alpr is None" is mock mode.
Met(image) ==
    IF image.kind # "undecodable" /\ alpr_service._alpr = None
    THEN [image EXCEPT !.kind = "unavailable"]
    ELSE image

\* The try block of recognize_from_base64 and the return of its PlateResult.
recognize_return(w) ==
    /\ req[w].pc = "try"
    /\ last' = Response("recognize_from_base64", req[w].id, None, None, The(req[w].data),
                        0, "returned", recognize_from_base64(Met(The(req[w].data).image)))
    /\ req' = [req EXCEPT ![w] = Idle]
    /\ UNCHANGED <<alpr_service, normalizer, buildings, vehicles, access_logs, nreq>>

RecognizerNext ==
    \/ \E w \in Workers : recognize_call(w)
    \/ \E w \in Workers : _initialize_check(w)
    \/ \E w \in Workers : _initialize_load(w)
    \/ \E w \in Workers : recognize_return(w)

RecognizerSpec == RecognizerInit /\ [][RecognizerNext]_vars

-----------------------------------------------------------------------------
(* ALPRService._normalize_plate on its own, as the unit tests call it *)

\* Characters of the texts: lower and upper case, a digit, the three
\* separators, and a character outside every class.
TextChars == {"a", "B", "1", " ", "-", ".", "#"}

\* None and every string of TextChars up to MaxText characters.
PlateTexts ==
    {None} \cup {Some(s) : s \in UNION {[1..n -> TextChars] : n \in 0..MaxText}}

NormalizeInit ==
    /\ Fixtures
    /\ normalizer \in {[NoCall EXCEPT !.text = x] : x \in PlateTexts}

\* service._normalize_plate(text)
normalize_plate ==
    /\ normalizer.normalized = None
    /\ normalizer' = [normalizer EXCEPT !.normalized = Some(_normalize_plate(normalizer.text))]
    /\ UNCHANGED <<alpr_service, buildings, vehicles, access_logs, req, last, nreq>>

\* service._normalize_plate(service._normalize_plate(text))
normalize_plate_again ==
    /\ normalizer.normalized # None
    /\ normalizer.again = None
    /\ normalizer' = [normalizer EXCEPT !.again = Some(_normalize_plate(normalizer.normalized))]
    /\ UNCHANGED <<alpr_service, buildings, vehicles, access_logs, req, last, nreq>>

NormalizeNext == normalize_plate \/ normalize_plate_again

NormalizeSpec == NormalizeInit /\ [][NormalizeNext]_vars

-----------------------------------------------------------------------------
(* The log queries on an audit table already written, as the tests of the   *)
(* log endpoints set it up                                                   *)

\* Rows that earlier verify calls of either building wrote.
AuditRows ==
    {AccessLog(0, b, plate, is_authorized, Some(90), accessed_at) :
        b \in Buildings, plate \in {<<"A","B","C","1">>, <<"X","Y","9">>},
        is_authorized \in BOOLEAN, accessed_at \in {1, 2}}

AuditInit ==
    /\ buildings = [b \in Buildings |->
                       [api_token |-> IF b = 1 THEN "tok1" ELSE "tok2", is_active |-> TRUE]]
    /\ vehicles = <<>>
    /\ access_logs \in UNION {[1..n -> AuditRows] : n \in 0..MaxLogs}
    /\ req = [w \in Workers |-> Idle]
    /\ last = Response("none", 0, None, None, None, 0, "", None)
    \* the requests that wrote the rows came before: one query is left to start
    /\ nreq = MaxRequests - 1
    /\ normalizer = NoCall
    /\ alpr_service = ALPRService("installed")

AuditNext == list_access_logs \/ get_vehicle_logs

AuditSpec == AuditInit /\ [][AuditNext]_vars

-----------------------------------------------------------------------------
(* GET /api/v1/vehicles with its query string, over a registry of five rows *)

\* The declarations of the query parameters: skip: int = Query(0, ge=0),
\* limit: int = Query(100, ge=1, le=1000), active_only: bool = Query(True).
SkipQuery == [default |-> 0, ge |-> Some(0), le |-> None]
LimitQuery == [default |-> 100, ge |-> Some(1), le |-> Some(1000)]
ActiveOnlyQuery == [default |-> TRUE]

\* The value the handler gets: the parameter's default when the query string
\* does not have it.
QueryValue(q, sent) == IF sent = None THEN q.default ELSE The(sent)

QueryValid_NoCeiling(q, value) == q.ge # None => value >= The(q.ge)

\* The ge / le constraints of the parameter, checked before the handler runs.
QueryValid(q, value) ==
    /\ q.ge # None => value >= The(q.ge)
    /\ q.le # None => value <= The(q.le)

\* skip, limit and active_only of the query string; None is a parameter
\* that was not sent.
SentSkips == {None, Some(-1), Some(0), Some(3), Some(5)}
SentLimits == {None, Some(0), Some(1), Some(3), Some(1000), Some(1001)}
SentActiveOnly == {None, Some(TRUE), Some(FALSE)}

\* The number of vehicles the pagination test registers.
RegistrySize == 5

\* A registered vehicle of the pagination and active_only tests: of the
\* building or of another, active or not.
ListRows ==
    { [building_id |-> 1, is_active |-> TRUE],
      [building_id |-> 1, is_active |-> FALSE],
      [building_id |-> 2, is_active |-> TRUE] }

ListInit ==
    /\ buildings = [b \in Buildings |->
                       [api_token |-> IF b = 1 THEN "tok1" ELSE "tok2", is_active |-> TRUE]]
    /\ \E rows \in [1..RegistrySize -> ListRows] :
         vehicles = [i \in 1..RegistrySize |->
                       [building_id |-> rows[i].building_id,
                        license_plate |-> <<"T","E","S","T", ToString(i - 1)>>,
                        owner_name |-> "Owner", apartment |-> None,
                        is_active |-> rows[i].is_active]]
    /\ access_logs = <<>>
    /\ req = [w \in Workers |-> Idle]
    /\ last = Response("none", 0, None, None, None, 0, "", None)
    \* the requests that registered the rows came before: one listing is left
    /\ nreq = MaxRequests - 1
    /\ normalizer = NoCall
    /\ alpr_service = ALPRService("installed")

\* The route as a client calls it: the building dependency, then the
\* validation of the query parameters (422), then the handler.
list_vehicles_query ==
    /\ nreq < MaxRequests
    /\ nreq' = nreq + 1
    /\ \E api_key \in PresentedKeys, sent_skip \in SentSkips,
          sent_limit \in SentLimits, sent_active_only \in SentActiveOnly :
         LET query == [skip |-> sent_skip, limit |-> sent_limit,
                       active_only |-> sent_active_only]
             skip == QueryValue(SkipQuery, sent_skip)
             limit == QueryValue(LimitQuery, sent_limit)
             active_only == QueryValue(ActiveOnlyQuery, sent_active_only)
             args == [skip |-> skip, limit |-> limit, active_only |-> active_only,
                      query |-> query]
             auth == get_current_building(api_key, buildings)
         IN  IF auth.error # None
             THEN last' = AuthFailure("list_vehicles", nreq', api_key)
             ELSE \E b \in auth.found :
                    IF QueryValid(SkipQuery, skip) /\ QueryValid(LimitQuery, limit)
                    THEN last' = Response("list_vehicles", nreq', api_key, Some(b), args,
                                          200, "", ListQuery(b, skip, limit, active_only))
                    ELSE last' = Response("list_vehicles", nreq', api_key, Some(b), args,
                                          422, "ValidationError", None)
    /\ UNCHANGED <<alpr_service, normalizer, buildings, vehicles, access_logs, req>>

ListNext == list_vehicles_query

ListSpec == ListInit /\ [][ListNext]_vars

-----------------------------------------------------------------------------
(* Properties *)

TenantOps ==
    {"list_vehicles", "get_vehicle", "create_vehicle", "update_vehicle", "delete_vehicle",
     "verify_plate", "list_access_logs", "get_vehicle_logs"}

\* The building a token belongs to.
TokenOwners(api_key) == {b \in Buildings : Some(buildings[b].api_token) = api_key}

\* Audit rows written by a request.
RowsOfRequest(id) == {i \in 1..Len(access_logs) : access_logs[i].request = id}

\* C1: a vehicle returned by get-by-plate, by the listing, or matched by the
\* authorization lookup of verify belongs to the building that owns the
\* presented token, never to another building.
C1_TenantIsolationOfReads ==
    /\ (last.op = "get_vehicle" /\ last.status_code = 200)
          => last.body.row.building_id \in TokenOwners(last.api_key)
    /\ (last.op = "list_vehicles" /\ last.status_code = 200)
          => \A k \in DOMAIN last.body :
                last.body[k].row.building_id \in TokenOwners(last.api_key)
    /\ \A w \in Workers :
          (req[w].pc = "verify_log" /\ req[w].vehicle # None)
             => vehicles[The(req[w].vehicle)].building_id = req[w].building

\* C1 witness: building 2 got its own record by plate while building 1 holds a
\* record with the identical plate.
C1_Witness ==
    /\ last.op = "get_vehicle" /\ last.status_code = 200
    /\ last.api_key = Some("tok2")
    /\ \E i \in 1..Len(vehicles) :
          /\ vehicles[i].building_id = 1
          /\ vehicles[i].license_plate = last.body.row.license_plate

\* C2: the step that performs the registry lookup of a verify call decides
\* "authorized" exactly when the building's registry then holds an active
\* record whose plate equals the looked-up plate; the response reports that
\* decision and that plate.
C2_AuthorizationDecision ==
    [][\A w \in Workers :
          /\ (req[w].pc = "verify_lookup" /\ req'[w].pc = "verify_log")
                => ((req'[w].vehicle # None) <=>
                      \E i \in 1..Len(vehicles) :
                         /\ vehicles[i].building_id = req[w].building
                         /\ vehicles[i].license_plate = req'[w].plate
                         /\ vehicles[i].is_active)
          /\ (req[w].pc = "verify_log" /\ req'[w].pc = "idle")
                => /\ last'.body.is_authorized = (req[w].vehicle # None)
                   /\ last'.body.license_plate = Some(req[w].plate)]_vars

\* C2 witness: a lookup decided "not authorized" while the building holds a
\* deactivated record with that plate.
C2_Witness ==
    \E w \in Workers :
        /\ req[w].pc = "verify_log"
        /\ req[w].vehicle = None
        /\ \E i \in 1..Len(vehicles) :
              /\ vehicles[i].building_id = req[w].building
              /\ vehicles[i].license_plate = req[w].plate
              /\ ~vehicles[i].is_active

\* C3: a verify call whose recognizer result has a non-empty text leaves
\* exactly one audit row, in the calling building; one whose recognizer
\* succeeds with no text leaves none and answers plate = null, not authorized.
C3_AuditCountPerVerify ==
    (last.op = "verify_plate" /\ last.status_code = 200) =>
        LET result == The(recognize_from_base64(last.args.image))
            hasText == result.text # None /\ Len(The(result.text)) > 0
        IN  /\ (result.success /\ hasText) =>
                /\ Cardinality(RowsOfRequest(last.id)) = 1
                /\ \A i \in RowsOfRequest(last.id) :
                      Some(access_logs[i].building_id) = last.building
            /\ (result.success /\ ~hasText) =>
                /\ RowsOfRequest(last.id) = {}
                /\ last.body.license_plate = None
                /\ last.body.is_authorized = FALSE

\* C3 witness: a verify call ended with no plate found after an earlier call
\* had written its audit row.
C3_Witness ==
    /\ last.op = "verify_plate" /\ last.status_code = 200
    /\ last.body.message.text = "No license plate detected in the image"
    /\ Len(access_logs) = 1

\* The recognizer reported an error to the verify call that `last` answers.
RecognizerFailed ==
    /\ last.op = "verify_plate" /\ last.status_code = 200
    /\ ~The(recognize_from_base64(last.args.image)).success

C5_UniquePlatePerTenant ==
    \A i, j \in 1..Len(vehicles) :
        (i # j /\ vehicles[i].building_id = vehicles[j].building_id)
            => vehicles[i].license_plate # vehicles[j].license_plate

\* C6: a create request that passes its existence check met no record of the
\* building, active or not, whose plate is the normalized form of the
\* requested plate.
C6_DuplicateOfNormalizedPlateConflicts ==
    [][\A w \in Workers :
          (req[w].pc = "idle" /\ req'[w].pc = "create_commit") =>
              \A i \in 1..Len(vehicles) :
                  vehicles[i].building_id = req'[w].building =>
                      vehicles[i].license_plate #
                          _normalize_plate(Some(The(req'[w].data).license_plate))]_vars

\* C6, the part the handler does enforce: a create request of an
\* authenticated building is refused with the "already registered" error, the
\* registry unchanged, exactly when the building holds a record, active or
\* not, whose plate is the upper-cased, space-stripped requested plate;
\* records of other buildings never refuse it.
C6_DuplicateOfStoredPlateConflicts ==
    [][\A w \in Workers :
          /\ (req[w].pc = "idle" /\ req'[w].pc = "create_commit") =>
                /\ req'[w].plate = replace_space(upper(The(req'[w].data).license_plate))
                /\ \A i \in 1..Len(vehicles) :
                      vehicles[i].building_id = req'[w].building =>
                          vehicles[i].license_plate # req'[w].plate
          /\ (req[w].pc = "idle" /\ nreq' # nreq /\ last'.op = "create_vehicle"
                /\ last'.id = nreq' /\ last'.building # None) =>
                /\ last'.status_code = 400
                /\ vehicles' = vehicles
                /\ \E i \in 1..Len(vehicles) :
                      /\ vehicles[i].building_id = The(last'.building)
                      /\ vehicles[i].license_plate =
                            replace_space(upper(last'.args.license_plate))]_vars

\* C7: every step leaves every existing audit row in place and unchanged; the
\* table only grows at its end.
C7_AppendOnlyAuditLog ==
    [][/\ Len(access_logs') >= Len(access_logs)
       /\ \A i \in 1..Len(access_logs) : access_logs'[i] = access_logs[i]]_vars

\* C7 witness: a second audit row was appended after a first one.
C7_Witness ==
    /\ Len(access_logs) = 2
    /\ access_logs[1].request # access_logs[2].request

\* Ids of the rows a listing response holds.
ListedInResponse == {last.body[k].id : k \in DOMAIN last.body}

ActiveOwners(api_key) == {b \in TokenOwners(api_key) : buildings[b].is_active}

WithTokenUnknown(b) == [buildings EXCEPT ![b].api_token = "reissued"]

\* C10: for the token of an inactive building, the error of the dependency is
\* the one it raises on the store that differs only in that the token belongs
\* to nobody, and a request that presents it is answered with exactly that
\* error.
C10_NoTenantExistenceLeak ==
    /\ [](\A b \in Buildings :
            ~buildings[b].is_active =>
                LET api_key == Some(buildings[b].api_token)
                    unknown == get_current_building(api_key, WithTokenUnknown(b))
                    inactive == get_current_building(api_key, buildings)
                IN  unknown.error # None /\ inactive.error = unknown.error)
    /\ [][\A b \in Buildings :
            (/\ ~buildings[b].is_active
             /\ nreq' # nreq
             /\ last'.id = nreq'
             /\ last'.op \in TenantOps
             /\ last'.api_key = Some(buildings[b].api_token)) =>
                /\ last'.building = None
                /\ Some([status_code |-> last'.status_code, detail |-> last'.detail])
                      = get_current_building(last'.api_key, WithTokenUnknown(b)).error
          /\ \A w \in Workers :
                (/\ ~buildings[b].is_active
                 /\ req[w].pc = "idle"
                 /\ req'[w].api_key = Some(buildings[b].api_token)) =>
                    req'[w].pc = "idle"]_vars

\* C10 witness: a listing with the token of an inactive building was refused.
C10_Witness ==
    /\ last.op = "list_vehicles" /\ last.building = None
    /\ \E b \in Buildings :
          ~buildings[b].is_active /\ last.api_key = Some(buildings[b].api_token)

-----------------------------------------------------------------------------
(* Plates: the canonical form of the specification *)

UpperAlnum ==
    {"A", "B", "C", "D", "E", "F", "G", "H", "I", "J", "K", "L", "M",
     "N", "O", "P", "Q", "R", "S", "T", "U", "V", "W", "X", "Y", "Z",
     "0", "1", "2", "3", "4", "5", "6", "7", "8", "9"}

RECURSIVE KeepUpperAlnum(_)
\* The subsequence, in order, of the characters of s that are in [A-Z0-9].
KeepUpperAlnum(s) ==
    IF s = <<>> THEN <<>>
    ELSE IF Head(s) \in UpperAlnum
         THEN <<Head(s)>> \o KeepUpperAlnum(Tail(s))
         ELSE KeepUpperAlnum(Tail(s))

\* normalize of the specification: upper-case, keep only [A-Z0-9].
Canonical(s) == KeepUpperAlnum(upper(s))

\* C11: every stored vehicle plate is its own normalization (only [A-Z0-9])
\* and is 4 to 20 characters long.
C11_StoredPlatesCanonical ==
    \A i \in 1..Len(vehicles) :
        /\ vehicles[i].license_plate = Canonical(vehicles[i].license_plate)
        /\ Len(vehicles[i].license_plate) >= 4
        /\ Len(vehicles[i].license_plate) <= 20

\* The OCR text of the image a verify request carries.
OcrText(r) == The(r.data).image.text

\* C12: a verify call looks up, writes to its audit row and returns the
\* normalization of the recognized text, both of the raw OCR text and of the
\* text the recognition service hands to the handler; and every recognized
\* text whose normalization is not empty is looked up.
C12_VerifyUsesCanonicalPlate ==
    [][\A w \in Workers :
          /\ (req[w].pc = "verify_lookup" /\ req'[w].pc = "verify_log") =>
                /\ req'[w].plate = Canonical(OcrText(req[w]))
                /\ req'[w].plate = Canonical(The(The(req[w].result).text))
          /\ (req[w].pc = "verify_log" /\ req'[w].pc = "idle") =>
                /\ access_logs'[Len(access_logs')].license_plate = Canonical(OcrText(req[w]))
                /\ last'.body.license_plate = Some(Canonical(OcrText(req[w])))
          /\ (req[w].pc = "idle" /\ nreq' # nreq /\ last'.id = nreq'
                /\ last'.op = "verify_plate" /\ last'.building # None
                /\ last'.args.image.kind = "plate") =>
                Canonical(last'.args.image.text) = <<>>]_vars

\* C12 witness: the recognized text "abc-1" was answered as plate "ABC1",
\* authorized by the active record "ABC1".
C12_Witness ==
    /\ last.op = "verify_plate" /\ last.status_code = 200
    /\ last.args.image.text = <<"a","b","c","-","1">>
    /\ last.body.license_plate = Some(<<"A","B","C","1">>)
    /\ last.body.is_authorized
    /\ \E i \in 1..Len(vehicles) :
          /\ vehicles[i].license_plate = <<"A","B","C","1">>
          /\ vehicles[i].is_active
          /\ Some(vehicles[i].building_id) = last.building

\* C13: the step that answers a verify call which looked a plate up returns
\* the plate, the decision and the recognizer's confidence, with owner_name
\* and apartment those of the matched vehicle when authorized and null when
\* not.
C13_VerifyOutcomeFields ==
    [][\A w \in Workers :
          (req[w].pc = "verify_log" /\ req'[w].pc = "idle") =>
              /\ last'.body.license_plate = Some(req[w].plate)
              /\ last'.body.is_authorized = (req[w].vehicle # None)
              /\ last'.body.confidence = The(req[w].result).confidence
              /\ IF req[w].vehicle # None
                 THEN /\ last'.body.owner_name =
                            Some(vehicles[The(req[w].vehicle)].owner_name)
                      /\ last'.body.apartment = vehicles[The(req[w].vehicle)].apartment
                 ELSE /\ last'.body.owner_name = None
                      /\ last'.body.apartment = None]_vars

\* C14: _normalize_plate returns a string for every text, the empty string
\* and None included, and normalizing its result again returns that result.
C14_NormalizeTotalIdempotent ==
    /\ normalizer.normalized = None => ENABLED normalize_plate
    /\ normalizer.normalized # None =>
          /\ The(normalizer.normalized) \in Seq(TextChars \cup UpperAlnum)
          /\ normalizer.again = None => ENABLED normalize_plate_again
    /\ normalizer.again # None => normalizer.again = normalizer.normalized

\* C14 witness: None was normalized to the empty string, twice.
C14_Witness ==
    /\ normalizer.text = None
    /\ normalizer.normalized = Some(<<>>)
    /\ normalizer.again = Some(<<>>)

\* C15: the result of _normalize_plate is the subsequence, in order, of the
\* upper-cased text's characters that are in [A-Z0-9]; None and the empty
\* string give the empty string.
C15_NormalizeResult ==
    normalizer.normalized # None =>
        The(normalizer.normalized) =
            IF normalizer.text = None THEN <<>>
            ELSE KeepUpperAlnum(upper(The(normalizer.text)))

\* C15 witness: "a-#" was normalized to "A".
C15_Witness ==
    /\ normalizer.text = Some(<<"a", "-", "#">>)
    /\ normalizer.normalized = Some(<<"A">>)

\* The recognizer succeeds on the image with no text or with a text whose
\* normalization is empty.
EmptyPlate(image) ==
    /\ recognize_from_base64(image) # None
    /\ The(recognize_from_base64(image)).success
    /\ (image.kind = "plate" => Canonical(image.text) = <<>>)

\* C16: a verify call of an authenticated building whose recognizer result
\* has an empty normalized text is answered at once with plate null and
\* authorized false ("no plate detected"): it is never looked up, and no
\* lookup or audit row ever has the empty plate.
C16_EmptyPlateNeverAuthorized ==
    /\ [][\A w \in Workers :
            /\ (nreq' # nreq /\ req[w].pc = "idle" /\ req'[w].pc # "idle"
                  /\ req'[w].data # None /\ "image" \in DOMAIN The(req'[w].data)) =>
                  ~EmptyPlate(The(req'[w].data).image)
            /\ (nreq' # nreq /\ last'.id = nreq' /\ last'.op = "verify_plate"
                  /\ last'.building # None /\ EmptyPlate(last'.args.image)) =>
                  /\ last'.status_code = 200
                  /\ last'.body.license_plate = None
                  /\ last'.body.is_authorized = FALSE
                  /\ last'.body.message.text = "No license plate detected in the image"]_vars
    /\ [](/\ \A w \in Workers :
               req[w].pc \in {"verify_lookup", "verify_log"} =>
                   The(The(req[w].result).text) # <<>>
          /\ \A i \in 1..Len(access_logs) : access_logs[i].license_plate # <<>>)

\* C16 witness: the recognized text "-" (empty once normalized) was answered
\* as no plate detected, with the confidence of the detection.
C16_Witness ==
    /\ last.op = "verify_plate" /\ last.status_code = 200
    /\ last.args.image.text = <<"-">> /\ last.args.image.kind = "plate"
    /\ last.body.license_plate = None
    /\ ~last.body.is_authorized
    /\ last.body.confidence = Some(55)

\* The update request answered in this step, of an authenticated building.
UpdateAnswered ==
    /\ nreq' # nreq /\ last'.id = nreq'
    /\ last'.op = "update_vehicle" /\ last'.building # None

\* Row i is the old row with exactly the supplied fields set to the supplied
\* values, and every other row is as before.
UpdatedExactly(i, data) ==
    /\ Len(vehicles') = Len(vehicles)
    /\ \A j \in 1..Len(vehicles) : j # i => vehicles'[j] = vehicles[j]
    /\ \A f \in DOMAIN vehicles[i] :
          vehicles'[i][f] = IF f \in DOMAIN data
                            THEN (IF f = "owner_name" THEN The(data[f]) ELSE data[f])
                            ELSE vehicles[i][f]
    /\ vehicles'[i].license_plate = vehicles[i].license_plate
    /\ vehicles'[i].building_id = vehicles[i].building_id

LogQueryAnswered(op) ==
    /\ nreq' # nreq /\ last'.id = nreq'
    /\ last'.op = op /\ last'.status_code = 200

\* The response lists `expected` newest first from position skip + 1, at most
\* limit of them, each id once and each entry as the table holds it.
NewestFirstPage(expected, skip, limit) ==
    LET ids == {last'.body[k].id : k \in DOMAIN last'.body}
        rest == IF Cardinality(expected) > skip THEN Cardinality(expected) - skip ELSE 0
    IN  /\ ids \subseteq expected
        /\ Len(last'.body) = (IF rest < limit THEN rest ELSE limit)
        /\ Cardinality(ids) = Len(last'.body)
        /\ \A k \in DOMAIN last'.body : last'.body[k].row = access_logs[last'.body[k].id]
        /\ \A j, k \in DOMAIN last'.body :
              j < k => last'.body[j].row.accessed_at >= last'.body[k].row.accessed_at
        \* nothing left out is newer than something returned after the skip
        /\ skip = 0 =>
              \A i \in expected \ ids : \A k \in DOMAIN last'.body :
                  access_logs[i].accessed_at <= last'.body[k].row.accessed_at

\* C18: the log listing returns only entries of the calling building, newest
\* first; with authorized_only unset entries of both outcomes, with true only
\* authorized ones, with false only unauthorized ones.
C18_AuditQuery ==
    [][LogQueryAnswered("list_access_logs") =>
         LET b == The(last'.building)
             f == last'.args.authorized_only
             expected == {i \in 1..Len(access_logs) :
                             /\ access_logs[i].building_id = b
                             /\ (f = Some(TRUE) => access_logs[i].is_authorized)
                             /\ (f = Some(FALSE) => ~access_logs[i].is_authorized)}
         IN  /\ b \in TokenOwners(last'.api_key)
             /\ NewestFirstPage(expected, last'.args.skip, last'.args.limit)]_vars

\* C18 witness: an unfiltered listing returned an unauthorized entry of a
\* later time before an authorized entry of an earlier time, while the other
\* building could hold entries of its own.
C18_Witness ==
    /\ last.op = "list_access_logs" /\ last.status_code = 200
    /\ last.args.authorized_only = None
    /\ Len(last.body) = 2
    /\ ~last.body[1].row.is_authorized /\ last.body[2].row.is_authorized
    /\ last.body[1].row.accessed_at > last.body[2].row.accessed_at
    /\ last.body[1].id < last.body[2].id

\* C19 as stated: the per-plate log query returns the building's entries whose
\* plate equals the normalization of the requested plate.
C19_QueryByNormalizedPlate ==
    [][LogQueryAnswered("get_vehicle_logs") =>
         NewestFirstPage({i \in 1..Len(access_logs) :
                             /\ access_logs[i].building_id = The(last'.building)
                             /\ access_logs[i].license_plate =
                                   Canonical(last'.args.license_plate)},
                         0, last'.args.limit)]_vars

\* C19 amended: the per-plate log query returns the building's entries whose
\* plate equals the upper-cased requested plate (nothing is removed from it),
\* newest first, at most limit entries.
C19_QueryByUpperCasedPlate ==
    [][LogQueryAnswered("get_vehicle_logs") =>
         NewestFirstPage({i \in 1..Len(access_logs) :
                             /\ access_logs[i].building_id = The(last'.building)
                             /\ access_logs[i].license_plate =
                                   upper(last'.args.license_plate)},
                         0, last'.args.limit)]_vars

\* C19 witness: the query for "abc1" with limit 1 returned the newer of the
\* building's two entries of plate "ABC1".
C19_Witness ==
    /\ last.op = "get_vehicle_logs" /\ last.status_code = 200
    /\ last.args.license_plate = <<"a","b","c","1">> /\ last.args.limit = 1
    /\ Len(last.body) = 1
    /\ last.body[1].row.license_plate = <<"A","B","C","1">>
    /\ \E i \in 1..Len(access_logs) :
          /\ i # last.body[1].id
          /\ access_logs[i].building_id = last.body[1].row.building_id
          /\ access_logs[i].license_plate = <<"A","B","C","1">>
          /\ access_logs[i].accessed_at < last.body[1].row.accessed_at

\* The buildings a key resolves to in a buildings table.
Resolves(api_key, db) == get_current_building(api_key, db).found

-----------------------------------------------------------------------------
(* Tokens, recognition failures and the order of a verify request *)

RecognitionFails(image) ==
    image.kind \in {"init_error", "unavailable", "undecodable", "model_error"}

\* C22: a verify call of an authenticated building whose recognition fails,
\* in whichever way, is answered 200 with authorized false and a message that
\* carries the recognizer's error text; none is answered with a server error.
C22_RecognitionErrorsRecovered ==
    (last.op = "verify_plate" /\ last.building # None
        /\ RecognitionFails(last.args.image)) =>
        /\ last.status_code = 200
        /\ last.body.is_authorized = FALSE
        /\ last.body.license_plate = None
        /\ last.body.message.text = "Failed to read license plate"
        /\ last.body.message.error # None
        /\ last.body.message.error = The(recognize_from_base64(last.args.image)).error

\* The verify request of an authenticated building answered by its
\* recognition step.
VerifyAnsweredAtRecognition ==
    /\ nreq' # nreq /\ last'.id = nreq'
    /\ last'.op = "verify_plate" /\ last'.building # None

\* The order of the steps of verify requests in one step of the system; with
\* all = FALSE only for the requests whose recognition returned a result.
VerifyStepOrder(all) ==
    /\ VerifyAnsweredAtRecognition =>
          LET called == recognize_from_base64(last'.args.image)
          IN  (all \/ called # None) =>
                \* RECOGNITION_FAILED or NO_PLATE_FOUND, then RESPONDED
                /\ last'.status_code = 200
                /\ called # None
                /\ IF The(called).success
                   THEN /\ NoText(The(called))
                        /\ last'.body.message.text = "No license plate detected in the image"
                   ELSE last'.body.message.text = "Failed to read license plate"
                /\ access_logs' = access_logs
    /\ \A w \in Workers :
          \* PLATE_FOUND: the one call of the recognizer returned a text
          /\ (req[w].pc = "idle" /\ req'[w].pc = "verify_lookup") =>
                /\ nreq' = nreq + 1 /\ req'[w].id = nreq'
                /\ req'[w].result = recognize_from_base64(The(req'[w].data).image)
                /\ The(req'[w].result).success /\ ~NoText(The(req'[w].result))
                /\ access_logs' = access_logs /\ last' = last
          \* the result is never replaced: the recognizer is not called again
          /\ (req[w].pc \in {"verify_lookup", "verify_log"} /\ req'[w].pc # "idle") =>
                /\ req'[w].id = req[w].id
                /\ req'[w].result = req[w].result
                /\ req'[w].data = req[w].data
          \* no way back, and none around the lookup
          /\ req[w].pc = "verify_lookup" => req'[w].pc \in {"verify_lookup", "verify_log"}
          /\ req[w].pc = "verify_log" => req'[w].pc \in {"verify_log", "idle"}
          /\ req'[w].pc = "verify_log" => req[w].pc \in {"verify_lookup", "verify_log"}
          \* AUTHORIZED or UNAUTHORIZED is decided before the audit row exists
          /\ (req[w].pc = "verify_lookup" /\ req'[w].pc = "verify_log") =>
                /\ access_logs' = access_logs /\ last' = last
                /\ RowsOfRequest(req[w].id) = {}
          \* LOGGED, then RESPONDED: the response comes with the row committed
          /\ (req[w].pc = "verify_log" /\ req'[w].pc = "idle") =>
                /\ RowsOfRequest(req[w].id) = {}
                /\ Len(access_logs') = Len(access_logs) + 1
                /\ access_logs'[Len(access_logs')].request = req[w].id
                /\ access_logs'[Len(access_logs')].is_authorized = (req[w].vehicle # None)
                /\ last'.op = "verify_plate" /\ last'.id = req[w].id
                /\ last'.status_code = 200
                /\ last'.body.is_authorized = (req[w].vehicle # None)

\* A verify request that has passed its recognition is answered.
VerifyResponds ==
    \A w \in Workers :
        (req[w].pc \in {"verify_lookup", "verify_log"}) ~> (req[w].pc = "idle")

\* C23: every verify request of an authenticated building goes through
\* recognition once, then ends as recognition failed or no plate found with a
\* response, or as plate found, through the registry lookup, then the audit
\* write, then the response, in that order and never back; and every request
\* is answered.
C23_VerifyRequestOrdering ==
    /\ [][VerifyStepOrder(TRUE)]_vars
    /\ VerifyResponds

\* C23, for the requests whose recognition returns a result (every one but
\* those that meet a model that cannot be built).
C23_OrderingOfRecoveredRequests ==
    /\ [][VerifyStepOrder(FALSE)]_vars
    /\ VerifyResponds

-----------------------------------------------------------------------------
(* Frame conditions of the tenant-scoped operations *)

\* The buildings for which a tenant-scoped handler runs in this step: the one
\* resolved from the key of a request answered at once, the one of a request
\* that takes its first step, the one of a request that takes a later step.
ActingBuildings ==
    {b \in Buildings :
        \/ /\ nreq' # nreq /\ last'.id = nreq' /\ last'.op \in TenantOps
           /\ last'.building = Some(b)
        \/ \E w \in Workers :
              \/ req[w].pc = "idle" /\ req'[w].pc # "idle" /\ req'[w].building = b
              \/ req[w].pc # "idle" /\ req'[w] # req[w] /\ req[w].building = b}

\* Every row of the table that the step changed, and every row it added, is a
\* row of the building the step ran for; no row is removed or moved to
\* another building.
OnlyOwnRows(table, table_after) ==
    /\ Len(table_after) >= Len(table)
    /\ \A i \in 1..Len(table) :
          /\ table_after[i].building_id = table[i].building_id
          /\ table_after[i] # table[i] => table[i].building_id \in ActingBuildings
    /\ \A i \in (Len(table) + 1)..Len(table_after) :
          table_after[i].building_id \in ActingBuildings

\* C24: a step of a create, update, deactivate or verify request that runs
\* for building A (the building its key resolved to) leaves every vehicle
\* record and every audit entry of every other building unchanged, and every
\* vehicle record and audit entry it adds belongs to A.
C24_WriteIsolation ==
    [][/\ OnlyOwnRows(vehicles, vehicles')
       /\ OnlyOwnRows(access_logs, access_logs')
       /\ Cardinality(ActingBuildings) <= 1
       /\ (nreq' # nreq /\ last'.id = nreq' /\ last'.op \in TenantOps
             /\ last'.building # None) =>
             last'.building \subseteq TokenOwners(last'.api_key)
       /\ \A w \in Workers :
             (req[w].pc = "idle" /\ req'[w].pc # "idle") =>
                 req'[w].building \in TokenOwners(req'[w].api_key)]_vars

\* C24 witness: building 2 deactivated its own record of a plate that
\* building 1 also holds, and building 1's record is still active.
C24_Witness ==
    /\ last.op = "delete_vehicle" /\ last.status_code = 200
    /\ last.building = Some(2)
    /\ \E i, j \in 1..Len(vehicles) :
          /\ vehicles[i].building_id = 1 /\ vehicles[j].building_id = 2
          /\ vehicles[i].license_plate = vehicles[j].license_plate
          /\ vehicles[i].is_active /\ ~vehicles[j].is_active

\* C25: whenever the response of a verify call is there and the call wrote an
\* audit row, the row is the only one of that call, it belongs to the
\* building the key resolved to, and its plate, authorized flag and
\* confidence are those of the response, whatever updates or deactivations
\* ran between the call's lookup and its audit write.
C25_AuditMatchesResponse ==
    (last.op = "verify_plate" /\ RowsOfRequest(last.id) # {}) =>
        /\ last.status_code = 200
        /\ Cardinality(RowsOfRequest(last.id)) = 1
        /\ \A i \in RowsOfRequest(last.id) :
              /\ Some(access_logs[i].building_id) = last.building
              /\ Some(access_logs[i].license_plate) = last.body.license_plate
              /\ access_logs[i].is_authorized = last.body.is_authorized
              /\ access_logs[i].confidence = last.body.confidence

\* C25 witness: a verify call was answered and audited as authorized although
\* the building's only record of the plate had been deactivated after the
\* call's lookup.
C25_Witness ==
    /\ last.op = "verify_plate" /\ last.status_code = 200
    /\ last.body.is_authorized
    /\ \E i \in RowsOfRequest(last.id) : access_logs[i].is_authorized
    /\ \A i \in 1..Len(vehicles) :
          (Some(vehicles[i].building_id) = last.building
              /\ Some(vehicles[i].license_plate) = last.body.license_plate)
            => ~vehicles[i].is_active

\* The key is absent or empty, the token of no building, or the token of an
\* inactive building.
FailsAuthentication(api_key) ==
    api_key \in {None, Some("")} \/ ActiveOwners(api_key) = {}

\* C26: a request to a tenant-scoped operation whose key fails authentication
\* is answered 401 in one step that changes no vehicle record, no audit row
\* and no building, starts no handler (so no recognition is run and no result
\* is held) and returns no body; and no handler ever starts for such a key.
C26_FailedAuthenticationNoEffect ==
    [][/\ (nreq' # nreq /\ last'.id = nreq' /\ last'.op \in TenantOps
             /\ FailsAuthentication(last'.api_key)) =>
             /\ last'.status_code = 401
             /\ last'.building = None /\ last'.body = None
             /\ vehicles' = vehicles
             /\ access_logs' = access_logs
             /\ buildings' = buildings
             /\ req' = req
       /\ \A w \in Workers :
             (req[w].pc = "idle" /\ req'[w].pc # "idle") =>
                 ~FailsAuthentication(req'[w].api_key)]_vars

\* C26 witness: a verify call with an unknown key was refused after an
\* earlier call had written an audit row, which is still the only one.
C26_Witness ==
    /\ last.op = "verify_plate" /\ last.status_code = 401
    /\ last.api_key = Some("invalid-key")
    /\ Len(access_logs) = 1 /\ access_logs[1].request # last.id

-----------------------------------------------------------------------------
(* The two verification routes *)

\* The image a verification request carries: the one its base64 body holds,
\* or the uploaded file.
ImageOf(args) ==
    IF "image" \in DOMAIN args THEN args.image ELSE Files[args.contents]

\* The outcome and the audit change of every step of the route `op` (whose
\* requests wait at lookup_pc and log_pc) as a function of the building, the
\* tables and the recognizer's result for the request's image.
VerifyRoute(op, lookup_pc, log_pc) ==
    /\ (nreq' # nreq /\ last'.id = nreq' /\ last'.op = op /\ last'.building # None) =>
          LET called == recognize_from_base64(ImageOf(last'.args))
              result == The(called)
          IN  /\ access_logs' = access_logs
              /\ IF called = None
                 THEN last'.status_code = 500 /\ last'.body = None
                 ELSE /\ last'.status_code = 200
                      /\ ~result.success \/ NoText(result)
                      /\ last'.body =
                            IF ~result.success
                            THEN PlateVerifyResponse(None, FALSE, None,
                                     Message("Failed to read license plate", result.error,
                                             None, None))
                            ELSE PlateVerifyResponse(None, FALSE, result.confidence,
                                     Message("No license plate detected in the image", None,
                                             None, None))
    /\ \A w \in Workers :
          /\ (req[w].pc = "idle" /\ req'[w].pc = lookup_pc) =>
                /\ req'[w].result = recognize_from_base64(ImageOf(The(req'[w].data)))
                /\ The(req'[w].result).success /\ ~NoText(The(req'[w].result))
                /\ req'[w].building \in ActiveOwners(req'[w].api_key)
                /\ access_logs' = access_logs
          /\ (req[w].pc = lookup_pc /\ req'[w].pc = log_pc) =>
                /\ req'[w].plate = replace_space(upper(The(The(req[w].result).text)))
                /\ IF AuthorizedVehicles(req[w].building, req'[w].plate) = {}
                   THEN req'[w].vehicle = None
                   ELSE /\ req'[w].vehicle # None
                        /\ The(req'[w].vehicle)
                              \in AuthorizedVehicles(req[w].building, req'[w].plate)
                /\ access_logs' = access_logs
          /\ (req[w].pc = log_pc /\ req'[w].pc = "idle") =>
                LET is_authorized == req[w].vehicle # None
                    confidence == The(req[w].result).confidence
                    row == access_logs'[Len(access_logs')]
                IN  /\ Len(access_logs') = Len(access_logs) + 1
                    /\ SubSeq(access_logs', 1, Len(access_logs)) = access_logs
                    /\ [row EXCEPT !.accessed_at = 0] =
                          AccessLog(req[w].id, req[w].building, req[w].plate,
                                    is_authorized, confidence, 0)
                    /\ last'.op = op /\ last'.id = req[w].id
                    /\ last'.status_code = 200
                    /\ last'.body =
                          PlateVerifyResponse(Some(req[w].plate), is_authorized, confidence,
                              IF is_authorized
                              THEN Message("Vehicle authorized", None,
                                       Some(vehicles[The(req[w].vehicle)].owner_name),
                                       vehicles[The(req[w].vehicle)].apartment)
                              ELSE Message("Vehicle not authorized for this building",
                                           None, None, None))

\* C27: every step of a verify request and every step of a verify-upload
\* request gives the outcome and the audit change that one and the same
\* function of the building, the tables and the recognizer's result for the
\* image gives; for the upload the image is the uploaded file itself, after
\* its encoding to base64 and back.
C27_VerifyRoutesEquivalent ==
    [][/\ VerifyRoute("verify_plate", "verify_lookup", "verify_log")
       /\ VerifyRoute("verify_plate_upload", "upload_lookup", "upload_log")]_vars

\* C27 witness: a base64 body and an uploaded file, both recognized as
\* "abc-1", have both been looked up for the same building as plate "ABC1"
\* and matched the same vehicle.
C27_Witness ==
    \E w, v \in Workers :
        /\ req[w].pc = "verify_log" /\ req[v].pc = "upload_log"
        /\ req[w].building = req[v].building
        /\ req[w].result = req[v].result
        /\ req[w].plate = <<"A","B","C","1">> /\ req[v].plate = req[w].plate
        /\ req[w].vehicle # None /\ req[v].vehicle = req[w].vehicle

-----------------------------------------------------------------------------
(* The recognition service *)

\* The PlateResult that the call answered last returned.
Returned == The(last.body)

\* C28: every PlateResult the service returns has, when success is false,
\* no text, no confidence and an error; when success is true, no error; and
\* when it has a text, a confidence that is an integer from 0 to 100.
C28_ResultShape ==
    (last.op = "recognize_from_base64" /\ last.detail = "returned") =>
        /\ ~Returned.success =>
              /\ Returned.text = None
              /\ Returned.confidence = None
              /\ Returned.error # None
        /\ Returned.success => Returned.error = None
        /\ Returned.text # None =>
              /\ Returned.confidence # None
              /\ The(Returned.confidence) \in 0..100

\* C28, without the clause that a success carries no error: a failure has no
\* text, no confidence and an error; a success has an error exactly when
\* nothing was detected (then it has no text and no confidence either);
\* a text comes with a confidence from 0 to 100.
C28_ResultShapeButNoDetection ==
    (last.op = "recognize_from_base64" /\ last.detail = "returned") =>
        /\ ~Returned.success =>
              /\ Returned.text = None
              /\ Returned.confidence = None
              /\ Returned.error # None
        /\ Returned.success =>
              /\ (Returned.error # None) <=> (last.args.image.kind = "no_results")
              /\ Returned.error # None =>
                    /\ Returned.error = Some("No license plate detected in image")
                    /\ Returned.text = None /\ Returned.confidence = None
        /\ Returned.text # None =>
              /\ Returned.confidence # None
              /\ The(Returned.confidence) \in 0..100

\* C30: the ALPR constructor runs at most once, whatever the order and the
\* interleaving of the recognize calls; _initialized, once true, stays true;
\* and with the model library missing no call raises and every call returns
\* success = false, with the error "ALPR service not available" when its
\* image reaches the model.
C30_ModelBuiltOnce ==
    /\ [](alpr_service.constructed <= 1)
    /\ [][alpr_service._initialized => alpr_service'._initialized]_vars
    /\ []((alpr_service.library = "missing" /\ last.op = "recognize_from_base64") =>
            /\ last.detail = "returned"
            /\ ~Returned.success
            /\ last.args.image.kind # "undecodable" =>
                  Returned.error = Some("ALPR service not available"))

\* C30, the part that holds under every interleaving: _initialized, once
\* true, stays true, and a model, once set, is only ever replaced by another;
\* with the library missing the constructor never runs, no call raises, and
\* every call returns success = false, with the error "ALPR service not
\* available" unless its image does not decode.
C30_InitializedStaysAndMockMode ==
    /\ [][/\ alpr_service._initialized => alpr_service'._initialized
          /\ alpr_service._alpr # None => alpr_service'._alpr # None]_vars
    /\ [](alpr_service.library = "missing" =>
            /\ alpr_service.constructed = 0 /\ alpr_service._alpr = None
            /\ last.op = "recognize_from_base64" =>
                  /\ last.detail = "returned"
                  /\ ~Returned.success
                  /\ last.args.image.kind # "undecodable" =>
                        Returned.error = Some("ALPR service not available"))

-----------------------------------------------------------------------------
(* Listing *)

\* The vehicles of building b, the active ones only when active_only.
Matching(b, active_only) ==
    {i \in 1..Len(vehicles) :
        vehicles[i].building_id = b /\ (active_only => vehicles[i].is_active)}

\* The position of row i among the rows of S, in the order of the table.
Rank(S, i) == Cardinality({j \in S : j <= i})

\* C29: a listing of an authenticated building with a negative skip, or a
\* limit below 1 or above 1000, is answered ValidationError (422) with no
\* rows; every other listing returns at most limit rows, which are the
\* building's vehicles (the active ones only when active_only is true or is
\* not sent) after the first skip of them, with limit 100 when none is
\* sent; and with five such vehicles limit=3 returns 3 rows and skip=3
\* returns 2.
C29_BoundedListing ==
    (last.op = "list_vehicles" /\ last.building # None) =>
        LET query == last.args.query
            skip == IF query.skip = None THEN 0 ELSE The(query.skip)
            limit == IF query.limit = None THEN 100 ELSE The(query.limit)
            active_only == IF query.active_only = None THEN TRUE
                           ELSE The(query.active_only)
            match == Matching(The(last.building), active_only)
        IN  IF skip < 0 \/ limit < 1 \/ limit > 1000
            THEN /\ last.status_code = 422
                 /\ last.detail = "ValidationError"
                 /\ last.body = None
            ELSE /\ last.status_code = 200
                 /\ Len(last.body) <= limit
                 /\ {last.body[k].id : k \in 1..Len(last.body)} =
                        {i \in match : /\ Rank(match, i) > skip
                                       /\ Rank(match, i) <= skip + limit}
                 /\ \A k \in 1..Len(last.body) :
                        /\ last.body[k] = Row(last.body[k].id)
                        /\ k > 1 => last.body[k - 1].id < last.body[k].id
                 /\ (Cardinality(match) = 5 /\ query.skip = None /\ query.limit = Some(3))
                        => Len(last.body) = 3
                 /\ (Cardinality(match) = 5 /\ query.skip = Some(3) /\ query.limit = None)
                        => Len(last.body) = 2

\* Five vehicles of the building, all active, listed with limit=3 alone:
\* the first three of them are returned.
C29_Witness ==
    /\ last.op = "list_vehicles" /\ last.status_code = 200
    /\ last.args.query = [skip |-> None, limit |-> Some(3), active_only |-> None]
    /\ Cardinality(Matching(The(last.building), TRUE)) = 5
    /\ Len(last.body) = 3
    /\ last.body[3].id = 3

====
